---- MODULE Spec2Model ----
(***************************************************************************)
(* Model of src/index.js: the Express ingestion service.                   *)
(*                                                                         *)
(* State: the process environment (API_TOKEN, ALLOW_IPS), the requests in  *)
(* flight on POST /ingest with the position of each handler, and the       *)
(* PostgreSQL store behind `pool`: the committed tables and, for every     *)
(* pooled connection, its session (transaction status and the rows its     *)
(* open transaction has written).                                          *)
(*                                                                         *)
(* JavaScript strings are sequences of one-character strings, so that      *)
(* startsWith, slice, split and trim are computed and not assumed.         *)
(* pool.query(text) runs one statement on some connection of the pool and  *)
(* gives the connection back; which connection serves a given call is the  *)
(* pool's choice, so every statement action chooses its connection with \E.*)
(***************************************************************************)
EXTENDS Integers, Sequences, FiniteSets, TLC

VARIABLES env, req, pc, resp, log, users, messages, tx, pendUsers, pendMsgs, overlapped

vars == <<env, req, pc, resp, log, users, messages, tx, pendUsers, pendMsgs, overlapped>>

\* ---- bounds ----
NumReqs == 2
NumConns == 2

Reqs == 1..NumReqs
Conns == 1..NumConns

\* ---- JavaScript values ----
Undef == [t |-> "undefined"]
Null == [t |-> "null"]
Str(s) == [t |-> "string", s |-> s]
Num(n) == [t |-> "number", n |-> n]

\* ToBoolean: undefined, null, '' and 0 are falsy
Truthy(v) ==
  CASE v.t = "undefined" -> FALSE
    [] v.t = "null" -> FALSE
    [] v.t = "string" -> v.s # <<>>
    [] v.t = "number" -> v.n # 0

\* a || b
Or(a, b) == IF Truthy(a) THEN a ELSE b

\* String.prototype.startsWith
startsWith(h, p) == Len(h) >= Len(p) /\ SubSeq(h, 1, Len(p)) = p

\* String.prototype.slice(n), n >= 0
slice(h, n) == SubSeq(h, n + 1, Len(h))

RECURSIVE trimStart(_)
trimStart(s) == IF s # <<>> /\ Head(s) = " " THEN trimStart(Tail(s)) ELSE s

RECURSIVE trimEnd(_)
trimEnd(s) ==
  IF s # <<>> /\ s[Len(s)] = " " THEN trimEnd(SubSeq(s, 1, Len(s) - 1)) ELSE s

\* String.prototype.trim
trim(s) == trimEnd(trimStart(s))

\* String.prototype.split(','): the sequence of parts, never empty
RECURSIVE split(_)
split(s) ==
  LET commas == {i \in 1..Len(s) : s[i] = ","}
  IN IF commas = {} THEN <<s>>
     ELSE LET i == CHOOSE j \in commas : \A k \in commas : j <= k
          IN <<SubSeq(s, 1, i - 1)>> \o split(SubSeq(s, i + 1, Len(s)))

\* .map(s => s.trim()).filter(Boolean), as the set .includes() looks in
TrimmedNonEmpty(parts) ==
  {trim(parts[i]) : i \in 1..Len(parts)} \ {<<>>}

Bearer == <<"B", "e", "a", "r", "e", "r", " ">>

\* ---- auth (middleware) ----
\* auth without the !API_TOKEN test
authMissingConfigCheck(headers, token) ==
  LET h == Or(headers.authorization, Str(<<>>))
      tk == IF startsWith(h.s, Bearer) THEN Str(slice(h.s, 7)) ELSE Str(<<>>)
  IN ~(tk # token)

\* TRUE iff auth calls next()
auth(headers, token) ==
  LET h == Or(headers.authorization, Str(<<>>))
      tk == IF startsWith(h.s, Bearer) THEN Str(slice(h.s, 7)) ELSE Str(<<>>)
  IN ~(~Truthy(token) \/ tk # token)

\* ---- ipAllowed ----
\* ipAllowed reading the last entry of x-forwarded-for instead of the first
ipAllowedLastEntry(r, allowIps) ==
  LET list == TrimmedNonEmpty(split(Or(allowIps, Str(<<>>)).s))
      raw == Or(Or(r.headers.xff, r.remoteAddress), Str(<<>>)).s
      parts == split(raw)
      ip == trim(parts[Len(parts)])
  IN IF list = {} THEN TRUE ELSE ip \in list

ipAllowed(r, allowIps) ==
  LET list == TrimmedNonEmpty(split(Or(allowIps, Str(<<>>)).s))
      ip == trim(split(Or(Or(r.headers.xff, r.remoteAddress), Str(<<>>)).s)[1])
  IN IF list = {} THEN TRUE ELSE ip \in list

\* ---- body destructuring and field validation ----
EmptyBody == [userId |-> Undef, username |-> Undef, displayName |-> Undef, message |-> Undef]

\* const { userId, username, displayName, message } = req.body || {}
Fields(r) == IF r.hasBody THEN r.body ELSE EmptyBody

\* the field check without !message
missingFieldsNoMessage(f) == ~Truthy(f.userId) \/ ~Truthy(f.username)

\* !userId || !username || !message
missingFields(f) == ~Truthy(f.userId) \/ ~Truthy(f.username) \/ ~Truthy(f.message)

\* ---- the synchronous head of POST /ingest: which branch answers ----

\* the handler with the field check ahead of ipAllowed
RouteValidateFirst(r, e) ==
  IF ~auth(r.headers, e.API_TOKEN) THEN "401"
  ELSE IF missingFields(Fields(r)) THEN "400"
  ELSE IF ~ipAllowed(r, e.ALLOW_IPS) THEN "403"
  ELSE "ingest"

Route(r, e) ==
  IF ~auth(r.headers, e.API_TOKEN) THEN "401"
  ELSE IF ~ipAllowed(r, e.ALLOW_IPS) THEN "403"
  ELSE IF missingFields(Fields(r)) THEN "400"
  ELSE "ingest"

\* ---- the store behind `pool` ----
\* Session status of a connection: no transaction block open, inside one,
\* or inside one that a failed statement has aborted.
TxStates == {"idle", "intx", "aborted"}

\* users(id PRIMARY KEY, username, display_name); `by` is the request that wrote the row
UserRow(r, f) ==
  [id |-> f.userId, username |-> f.username,
   display_name |-> Or(f.displayName, Null), by |-> r]

\* messages(id, user_id REFERENCES users(id), message, ts); `by` stands for the serial id
MessageRow(r, f) == [user_id |-> f.userId, message |-> f.message, by |-> r]

\* INSERT ... ON CONFLICT (id) DO UPDATE: the row replaces the one with its id
Upserted(table, row) == {x \in table : x.id # row.id} \cup {row}

\* what connection c reads: the committed rows under its own uncommitted ones
VisibleUsers(c) ==
  IF tx[c] = "intx"
  THEN {x \in users : \A y \in pendUsers[c] : y.id # x.id} \cup pendUsers[c]
  ELSE users

\* the row of users with this id is written by a transaction still open elsewhere
Locked(c, id) ==
  \E d \in Conns \ {c} : tx[d] # "idle" /\ \E y \in pendUsers[d] : y.id = id

\* messages.user_id REFERENCES users(id), checked by the store at insert
ForeignKeyOk(c, id) == \E x \in VisibleUsers(c) : x.id = id

Outcomes == {"ok", "error", "lost"}

\* the session after the connection broke: the server rolls its transaction back
SessionLost(c) ==
  /\ tx' = [tx EXCEPT ![c] = "idle"]
  /\ pendUsers' = [pendUsers EXCEPT ![c] = {}]
  /\ pendMsgs' = [pendMsgs EXCEPT ![c] = {}]
  /\ UNCHANGED <<users, messages>>

\* the session after the server rejected a statement
SessionError(c) ==
  /\ tx' = [tx EXCEPT ![c] = IF tx[c] = "idle" THEN "idle" ELSE "aborted"]
  /\ UNCHANGED <<users, messages, pendUsers, pendMsgs>>

\* pool.query('BEGIN') served by connection c
ExecBegin(c, out) ==
  CASE out = "ok" ->
         /\ tx[c] # "aborted"
         /\ tx' = [tx EXCEPT ![c] = "intx"]
         /\ UNCHANGED <<users, messages, pendUsers, pendMsgs>>
    [] out = "error" -> tx[c] = "aborted" /\ SessionError(c)
    [] out = "lost" -> SessionLost(c)

\* pool.query(INSERT INTO users ... ON CONFLICT ...) served by connection c
ExecUpsert(c, out, row) ==
  /\ ~Locked(c, row.id)
  /\ CASE out = "ok" ->
            /\ tx[c] # "aborted"
            /\ IF tx[c] = "intx"
               THEN /\ pendUsers' = [pendUsers EXCEPT ![c] = Upserted(@, row)]
                    /\ UNCHANGED users
               ELSE /\ users' = Upserted(users, row)
                    /\ UNCHANGED pendUsers
            /\ UNCHANGED <<messages, pendMsgs, tx>>
       [] out = "error" -> SessionError(c)
       [] out = "lost" -> SessionLost(c)

\* pool.query(INSERT INTO messages ...) served by connection c
ExecInsert(c, out, row) ==
  CASE out = "ok" ->
         /\ tx[c] # "aborted"
         /\ ForeignKeyOk(c, row.user_id)
         /\ IF tx[c] = "intx"
            THEN /\ pendMsgs' = [pendMsgs EXCEPT ![c] = @ \cup {row}]
                 /\ UNCHANGED messages
            ELSE /\ messages' = messages \cup {row}
                 /\ UNCHANGED pendMsgs
         /\ UNCHANGED <<users, pendUsers, tx>>
    [] out = "error" -> SessionError(c)
    [] out = "lost" -> SessionLost(c)

\* pool.query('COMMIT') served by connection c; COMMIT of an aborted
\* transaction rolls back and completes without an error
ExecCommit(c, out) ==
  CASE out = "ok" ->
         /\ users' = IF tx[c] = "intx"
                     THEN {x \in users : \A y \in pendUsers[c] : y.id # x.id}
                            \cup pendUsers[c]
                     ELSE users
         /\ messages' = IF tx[c] = "intx" THEN messages \cup pendMsgs[c] ELSE messages
         /\ tx' = [tx EXCEPT ![c] = "idle"]
         /\ pendUsers' = [pendUsers EXCEPT ![c] = {}]
         /\ pendMsgs' = [pendMsgs EXCEPT ![c] = {}]
    [] out = "error" -> FALSE
    [] out = "lost" -> SessionLost(c)

\* pool.query('ROLLBACK') served by connection c
ExecRollback(c, out) ==
  CASE out = "ok" -> SessionLost(c)
    [] out = "error" -> FALSE
    [] out = "lost" -> SessionLost(c)

\* ---- requests ----
Secret == <<"s">>

MkReq(a, x, peer, hasBody, body) ==
  [headers |-> [authorization |-> a, xff |-> x], remoteAddress |-> peer,
   hasBody |-> hasBody, body |-> body]

MkBody(u, n, d, m) == [userId |-> u, username |-> n, displayName |-> d, message |-> m]

AuthHeaders ==
  {Undef, Str(Bearer \o Secret), Str(Bearer \o <<"x">>), Str(Bearer), Str(Secret),
   Str(<<"b", "e", "a", "r", "e", "r", " ">> \o Secret)}

XffHeaders ==
  {Undef, Str(<<"a">>), Str(<<"c", ",", " ", "a">>), Str(<<" ", "a", " ", ",", "c">>)}

Peers == {Undef, Str(<<"a">>), Str(<<"c">>)}

Bodies ==
  {MkBody(u, n, Undef, m) :
     u \in {Undef, Str(<<>>), Num(0), Str(<<"u">>)},
     n \in {Undef, Str(<<>>), Str(<<"n">>)},
     m \in {Undef, Null, Str(<<>>), Str(<<"x">>)}}

\* every combination of headers, peer address and body, for one request at a time
AllRequests ==
  {MkReq(a, x, p, TRUE, b) : a \in AuthHeaders, x \in XffHeaders, p \in Peers, b \in Bodies}
    \cup {MkReq(a, x, p, FALSE, EmptyBody) : a \in AuthHeaders, x \in XffHeaders, p \in Peers}

AllEnvs ==
  [API_TOKEN : {Undef, Str(<<>>), Str(Secret)},
   ALLOW_IPS : {Undef, Str(<<" ", ",">>), Str(<<"a", ",", " ", "b">>)}]

\* the requests of the concurrent runs: three that pass every check, one per refusal
Good(u, n, d) ==
  MkReq(Str(Bearer \o Secret), Undef, Str(<<"a">>), TRUE,
        MkBody(Str(u), Str(n), d, Str(<<"x">>)))

BadToken == MkReq(Str(Bearer \o <<"x">>), Undef, Str(<<"c">>), FALSE, EmptyBody)

BadAddress ==
  MkReq(Str(Bearer \o Secret), Str(<<"c", ",", " ", "a">>), Str(<<"a">>), FALSE, EmptyBody)

BadBody ==
  MkReq(Str(Bearer \o Secret), Undef, Str(<<"a">>), TRUE,
        MkBody(Str(<<"u">>), Str(<<"n">>), Undef, Undef))

\* the first request creates user u; a later one updates u or creates v
Inputs(r) ==
  IF r = 1
  THEN {Good(<<"u">>, <<"n">>, Str(<<"d">>)), BadToken}
  ELSE {Good(<<"u">>, <<"m">>, Undef), Good(<<"v">>, <<"n">>, Str(<<>>)), BadAddress, BadBody}

DeployedEnv == [API_TOKEN |-> Str(Secret), ALLOW_IPS |-> Str(<<"a", ",", " ", "b">>)]

NoReq == MkReq(Undef, Undef, Undef, FALSE, EmptyBody)

\* ---- POST /ingest ----
Running(r) == pc[r] \notin {"idle", "done", "rejected"}

\* requests are numbered in their order of arrival
Arrives(r) == pc[r] = "idle" /\ (IF r = 1 THEN TRUE ELSE pc[r - 1] # "idle")

\* auth: res.status(401).json({error: 'unauthorized'}), in the turn that receives the request
Unauthorized(r, in) ==
  /\ Arrives(r)
  /\ Route(in, env) = "401"
  /\ req' = [req EXCEPT ![r] = in]
  /\ resp' = [resp EXCEPT ![r] = "401"]
  /\ pc' = [pc EXCEPT ![r] = "done"]
  /\ UNCHANGED <<env, log, users, messages, tx, pendUsers, pendMsgs, overlapped>>

\* res.status(403).json({error: 'forbidden_ip'})
ForbiddenIp(r, in) ==
  /\ Arrives(r)
  /\ Route(in, env) = "403"
  /\ req' = [req EXCEPT ![r] = in]
  /\ resp' = [resp EXCEPT ![r] = "403"]
  /\ pc' = [pc EXCEPT ![r] = "done"]
  /\ UNCHANGED <<env, log, users, messages, tx, pendUsers, pendMsgs, overlapped>>

\* res.status(400).json({error: 'missing fields', required: [...]})
MissingFields(r, in) ==
  /\ Arrives(r)
  /\ Route(in, env) = "400"
  /\ req' = [req EXCEPT ![r] = in]
  /\ resp' = [resp EXCEPT ![r] = "400"]
  /\ pc' = [pc EXCEPT ![r] = "done"]
  /\ UNCHANGED <<env, log, users, messages, tx, pendUsers, pendMsgs, overlapped>>

\* the checks pass: the handler enters the try block and awaits its first statement
StartIngest(r, in) ==
  /\ Arrives(r)
  /\ Route(in, env) = "ingest"
  /\ req' = [req EXCEPT ![r] = in]
  /\ pc' = [pc EXCEPT ![r] = "BEGIN"]
  /\ overlapped' = (overlapped \/ \E q \in Reqs : Running(q))
  /\ UNCHANGED <<env, resp, log, users, messages, tx, pendUsers, pendMsgs>>

\* the try block with the Message insert ahead of the User upsert
SuccessorInsertFirst(stmt) ==
  CASE stmt = "BEGIN" -> "INSERT"
    [] stmt = "INSERT" -> "UPSERT"
    [] stmt = "UPSERT" -> "COMMIT"
    [] stmt = "COMMIT" -> "done"

\* the order of the awaited statements in the try block
Successor(stmt) ==
  CASE stmt = "BEGIN" -> "UPSERT"
    [] stmt = "UPSERT" -> "INSERT"
    [] stmt = "INSERT" -> "COMMIT"
    [] stmt = "COMMIT" -> "done"

\* an awaited statement of the try block settles: on to the next one, to
\* res.json({ok: true}) after COMMIT, or into the catch block
Settle(r, stmt, c, out) ==
  /\ log' = [log EXCEPT ![r] = Append(@, [stmt |-> stmt, ok |-> out = "ok"])]
  /\ pc' = [pc EXCEPT ![r] = IF out = "ok" THEN Successor(stmt) ELSE "ROLLBACK"]
  /\ resp' = [resp EXCEPT ![r] = IF out = "ok" /\ Successor(stmt) = "done" THEN "200" ELSE @]
  /\ UNCHANGED <<env, req, overlapped>>

\* pool.query hands the statement to a connection of the pool. Connections whose
\* sessions are in the same state are interchangeable, so of those the lowest is taken.
Serves(c) ==
  \A d \in Conns :
    d < c => <<tx[d], pendUsers[d], pendMsgs[d]>> # <<tx[c], pendUsers[c], pendMsgs[c]>>

QueryBegin(r, c, out) ==
  /\ pc[r] = "BEGIN"
  /\ Serves(c)
  /\ ExecBegin(c, out)
  /\ Settle(r, "BEGIN", c, out)

QueryUpsert(r, c, out) ==
  /\ pc[r] = "UPSERT"
  /\ Serves(c)
  /\ ExecUpsert(c, out, UserRow(r, Fields(req[r])))
  /\ Settle(r, "UPSERT", c, out)

QueryInsert(r, c, out) ==
  /\ pc[r] = "INSERT"
  /\ Serves(c)
  /\ ExecInsert(c, out, MessageRow(r, Fields(req[r])))
  /\ Settle(r, "INSERT", c, out)

QueryCommit(r, c, out) ==
  /\ pc[r] = "COMMIT"
  /\ Serves(c)
  /\ ExecCommit(c, out)
  /\ Settle(r, "COMMIT", c, out)

\* catch (e): await pool.query('ROLLBACK') resolves; console.error; res.status(500)
RollbackDone(r, c) ==
  /\ pc[r] = "ROLLBACK"
  /\ Serves(c)
  /\ ExecRollback(c, "ok")
  /\ log' = [log EXCEPT ![r] = Append(@, [stmt |-> "ROLLBACK", ok |-> TRUE])]
  /\ pc' = [pc EXCEPT ![r] = "done"]
  /\ resp' = [resp EXCEPT ![r] = "500"]
  /\ UNCHANGED <<env, req, overlapped>>

\* catch (e): await pool.query('ROLLBACK') throws inside the catch block, so the
\* promise of the async handler rejects and res.status(500).json(...) is never
\* reached. "unhandled" stands for what the request then gets from the framework
\* (no answer at all, or the answer of its default error handler): never the
\* handler's own server_error answer.
RollbackThrows(r, c) ==
  /\ pc[r] = "ROLLBACK"
  /\ Serves(c)
  /\ ExecRollback(c, "lost")
  /\ log' = [log EXCEPT ![r] = Append(@, [stmt |-> "ROLLBACK", ok |-> FALSE])]
  /\ pc' = [pc EXCEPT ![r] = "rejected"]
  /\ resp' = [resp EXCEPT ![r] = "unhandled"]
  /\ UNCHANGED <<env, req, overlapped>>

\* ---- specifications ----
InitStore ==
  /\ req = [r \in Reqs |-> NoReq]
  /\ pc = [r \in Reqs |-> "idle"]
  /\ resp = [r \in Reqs |-> "none"]
  /\ log = [r \in Reqs |-> <<>>]
  /\ users = {}
  /\ messages = {}
  /\ tx = [c \in Conns |-> "idle"]
  /\ pendUsers = [c \in Conns |-> {}]
  /\ pendMsgs = [c \in Conns |-> {}]
  /\ overlapped = FALSE

Init == env = DeployedEnv /\ InitStore

Statements(r) ==
  \E c \in Conns :
    \/ \E out \in Outcomes : QueryBegin(r, c, out)
    \/ \E out \in Outcomes : QueryUpsert(r, c, out)
    \/ \E out \in Outcomes : QueryInsert(r, c, out)
    \/ \E out \in Outcomes : QueryCommit(r, c, out)
    \/ RollbackDone(r, c)
    \/ RollbackThrows(r, c)

Next ==
  \E r \in Reqs :
    \/ \E in \in Inputs(r) : Unauthorized(r, in)
    \/ \E in \in Inputs(r) : ForbiddenIp(r, in)
    \/ \E in \in Inputs(r) : MissingFields(r, in)
    \/ \E in \in Inputs(r) : StartIngest(r, in)
    \/ Statements(r)

\* concurrent requests of the deployed configuration over the shared pool
Spec == Init /\ [][Next]_vars

InitChecks == env \in AllEnvs /\ InitStore

NextChecks ==
  \/ pc[1] = "idle" /\ \E in \in AllRequests : Unauthorized(1, in)
  \/ pc[1] = "idle" /\ \E in \in AllRequests : ForbiddenIp(1, in)
  \/ pc[1] = "idle" /\ \E in \in AllRequests : MissingFields(1, in)
  \/ pc[1] = "idle" /\ \E in \in AllRequests : StartIngest(1, in)
  \/ Statements(1)

\* one request, of every shape, under every configuration
SpecChecks == InitChecks /\ [][NextChecks]_vars

\* ---- what the claims speak of ----
Received(r) == pc[r] # "idle"

Finished(r) == pc[r] \in {"done", "rejected"}

Succeeded(r, stmt) == \E i \in 1..Len(log[r]) : log[r][i].stmt = stmt /\ log[r][i].ok

Failed(r, stmt) == \E i \in 1..Len(log[r]) : log[r][i].stmt = stmt /\ ~log[r][i].ok

\* no table and no open transaction holds a row written by request r
NoRowsBy(r) ==
  /\ \A x \in users : x.by # r
  /\ \A m \in messages : m.by # r
  /\ \A c \in Conns : (\A x \in pendUsers[c] : x.by # r) /\ (\A m \in pendMsgs[c] : m.by # r)

\* the rows of request r, committed and uncommitted
RowsOf(r) ==
  [users |-> {x \in users : x.by = r},
   messages |-> {m \in messages : m.by = r},
   pendUsers |-> [c \in Conns |-> {x \in pendUsers[c] : x.by = r}],
   pendMsgs |-> [c \in Conns |-> {m \in pendMsgs[c] : m.by = r}]]

\* the header is exactly 'Bearer ' followed by the configured, non-empty API_TOKEN
ValidCredential(rq, e) ==
  /\ e.API_TOKEN \notin {Undef, Str(<<>>)}
  /\ rq.headers.authorization = Str(Bearer \o e.API_TOKEN.s)

Allowlist(e) ==
  IF e.ALLOW_IPS = Undef THEN {} ELSE TrimmedNonEmpty(split(e.ALLOW_IPS.s))

\* first entry of x-forwarded-for, else the socket peer address
Origin(rq) ==
  IF rq.headers.xff \notin {Undef, Str(<<>>)} THEN trim(split(rq.headers.xff.s)[1])
  ELSE IF rq.remoteAddress = Undef THEN <<>>
  ELSE rq.remoteAddress.s

OriginRefused(rq, e) == Allowlist(e) # {} /\ Origin(rq) \notin Allowlist(e)

Falsy == {Undef, Null, Str(<<>>), Num(0)}

RequiredFieldMissing(rq) ==
  \/ ~rq.hasBody
  \/ rq.body.userId \in Falsy
  \/ rq.body.username \in Falsy
  \/ rq.body.message \in Falsy

\* ---- claims ----

\* C1: a request whose User upsert succeeded and whose Message insert then failed
\* leaves, once it has rolled back and answered 500, neither a users row nor a
\* messages row of its own in the committed tables.
C1_Atomicity ==
  \A r \in Reqs :
    (pc[r] = "done" /\ resp[r] = "500" /\ Succeeded(r, "UPSERT") /\ Failed(r, "INSERT"))
      => (\A x \in users : x.by # r) /\ (\A m \in messages : m.by # r)

\* C2: whenever a request is answered 200 the committed tables hold a users row
\* with its userId and its messages row; a single successful ingest into the empty
\* store leaves exactly its users row (display_name NULL when displayName is
\* omitted) and exactly its messages row.
C2_OkMeansCommitted ==
  \A r \in Reqs :
    resp[r] = "200" =>
      LET f == Fields(req[r])
      IN /\ \E x \in users : x.id = f.userId
         /\ MessageRow(r, f) \in messages
         /\ (\A q \in Reqs \ {r} : ~Received(q)) =>
              users = {UserRow(r, f)} /\ messages = {MessageRow(r, f)}

\* C3: a request whose Authorization header is not 'Bearer ' followed by the
\* configured API_TOKEN, or any request when API_TOKEN is not configured, is
\* answered 401 and issues no statement and writes no row.
C3_Unauthorized ==
  \A r \in Reqs :
    (Received(r) /\ ~ValidCredential(req[r], env))
      => resp[r] = "401" /\ log[r] = <<>> /\ NoRowsBy(r)

C3_Witness ==
  /\ env.API_TOKEN = Str(<<>>)
  /\ Received(1)
  /\ req[1].headers.authorization = Str(Bearer)
  /\ resp[1] = "401"

\* C4: with a non-empty allowlist, a request with a valid bearer token whose
\* originating address is not in the allowlist is answered 403 and issues no
\* statement and writes no row.
C4_ForbiddenIp ==
  \A r \in Reqs :
    (Received(r) /\ ValidCredential(req[r], env) /\ OriginRefused(req[r], env))
      => resp[r] = "403" /\ log[r] = <<>> /\ NoRowsBy(r)

C4_Witness ==
  /\ Received(1)
  /\ req[1].headers.xff = Str(<<"c", ",", " ", "a">>)
  /\ req[1].remoteAddress = Str(<<"a">>)
  /\ ~RequiredFieldMissing(req[1])
  /\ resp[1] = "403"

\* C5: an authorized, IP-allowed request in which userId, username or message is
\* absent or falsy is answered 400 and issues no statement, not even BEGIN, and
\* writes no row.
C5_MissingFields ==
  \A r \in Reqs :
    (/\ Received(r)
     /\ ValidCredential(req[r], env)
     /\ ~OriginRefused(req[r], env)
     /\ RequiredFieldMissing(req[r]))
      => resp[r] = "400" /\ log[r] = <<>> /\ NoRowsBy(r)

C5_Witness ==
  /\ Received(1)
  /\ req[1].hasBody
  /\ req[1].body.userId = Str(<<"u">>)
  /\ req[1].body.username = Str(<<"n">>)
  /\ req[1].body.message = Str(<<>>)
  /\ resp[1] = "400"

\* C6: when the requests came one after another, for every userId with k > 0
\* requests answered 200 the committed tables hold exactly one users row for it,
\* carrying the username and display_name of the last of them (NULL when that one
\* omitted displayName), and exactly k messages rows.
C6_LastWriteWins ==
  ((\A r \in Reqs : ~Received(r) \/ Finished(r)) /\ ~overlapped) =>
    \A r \in Reqs :
      resp[r] = "200" =>
        LET id == Fields(req[r]).userId
            same == {q \in Reqs : resp[q] = "200" /\ Fields(req[q]).userId = id}
            last == CHOOSE q \in same : \A o \in same : o <= q
        IN /\ {x \in users : x.id = id} = {UserRow(last, Fields(req[last]))}
           /\ Cardinality({m \in messages : m.user_id = id}) = Cardinality(same)

\* C7: a request that passed the checks and has left its handler has exactly one
\* answer, 200 or 500, and it is 500 server_error if one of its statements failed,
\* also when the ROLLBACK of the error path failed.
C7_AlwaysAnswered ==
  \A r \in Reqs :
    (Finished(r) /\ log[r] # <<>>) =>
      /\ resp[r] \in {"200", "500"}
      /\ (\E i \in 1..Len(log[r]) : ~log[r][i].ok) => resp[r] = "500"

\* C8: a completed BEGIN, COMMIT or ROLLBACK of request a never discards or
\* commits a row of another request b; and when a and b have different userIds, a has issued
\* ROLLBACK and b is answered 200, b's users row and messages row are committed.
TxControlBy(a) ==
  /\ Len(log'[a]) = Len(log[a]) + 1
  /\ log'[a][Len(log'[a])].stmt \in {"BEGIN", "COMMIT", "ROLLBACK"}
  /\ log'[a][Len(log'[a])].ok

C8_Isolation ==
  [][\A a \in Reqs : \A b \in Reqs \ {a} :
       /\ TxControlBy(a) => RowsOf(b)' = RowsOf(b)
       /\ (/\ Finished(a)' /\ resp'[b] = "200"
           /\ Fields(req'[a]).userId # Fields(req'[b]).userId
           /\ \E i \in 1..Len(log'[a]) : log'[a][i].stmt = "ROLLBACK")
            => /\ UserRow(b, Fields(req'[b])) \in users'
               /\ MessageRow(b, Fields(req'[b])) \in messages']_vars

\* C9: every committed messages row has a user_id for which a committed users row
\* exists, and a request issues its Message insert only after its User upsert has
\* completed.
C9_MessageHasUser ==
  /\ \A m \in messages : \E x \in users : x.id = m.user_id
  /\ \A r \in Reqs :
       /\ pc[r] = "INSERT" => Succeeded(r, "UPSERT")
       /\ \A i \in 1..Len(log[r]) :
            log[r][i].stmt = "INSERT" =>
              \E j \in 1..(i - 1) : log[r][j].stmt = "UPSERT" /\ log[r][j].ok

C9_Witness ==
  /\ resp[1] = "500"
  /\ Failed(1, "INSERT")
  /\ resp[2] = "200"
  /\ \E m \in messages : m.by = 2 /\ \E x \in users : x.id = m.user_id /\ x.by = 2

\* C10: the checks run in the order credential, allowlist, fields: a bad
\* credential gets 401 whatever the address and body, a valid credential from a
\* refused address gets 403 even with fields missing, and 400 is answered only to a
\* request that passed the credential check and the allowlist.
C10_CheckOrder ==
  \A r \in Reqs :
    Received(r) =>
      /\ ~ValidCredential(req[r], env) => resp[r] = "401"
      /\ (ValidCredential(req[r], env) /\ OriginRefused(req[r], env)) => resp[r] = "403"
      /\ resp[r] = "400" =>
           ValidCredential(req[r], env) /\ ~OriginRefused(req[r], env)

C10_Witness ==
  /\ Received(1)
  /\ ValidCredential(req[1], env)
  /\ OriginRefused(req[1], env)
  /\ RequiredFieldMissing(req[1])
  /\ resp[1] = "403"

====
